---- MODULE Spec2Model ----
(***************************************************************************)
(* A model of the envoice Python client (src/python/envoice): the fluent   *)
(* InvoiceBuilder, the request it builds and serializes, and the           *)
(* EnvoiceClient's classification of HTTP replies into returned results    *)
(* and raised errors, in the synchronous and the asynchronous mode.        *)
(*                                                                         *)
(* Python values are encoded as follows.  An Optional value is a tuple of  *)
(* length 0 (None) or 1 (the value).  Objects are records with a "type"    *)
(* field.  A dict produced by model_dump is a function from its keys; a    *)
(* key that is absent is not in the function's domain.  Floats that the    *)
(* code never computes with are integers.                                  *)
(***************************************************************************)
EXTENDS Integers, Sequences, FiniteSets, Bags, TLC

VARIABLES
    b,              \* the InvoiceBuilder's fields (invoice.py:75-86)
    b2,             \* the fields of a second InvoiceBuilder, from another invoice() call
    lists,          \* the list object the caller holds, and the builders whose _items is that object
    assigned,       \* history: the value setter calls last gave each Customization field
    items_log,      \* history: the list last given to items(), and the items added since
    payloads,       \* history: the payloads generate sent since the last setter call (the last two)
    init_args,      \* history: the arguments EnvoiceClient(...) was constructed with
    client,         \* the EnvoiceClient's fixed fields (client.py:46-48), or None if construction raised
    sync_client,    \* EnvoiceClient._sync_client (client.py:49)
    async_client,   \* EnvoiceClient._async_client (client.py:50)
    transports,     \* history: per mode, every transport created, with how often it was closed
    net,            \* the HTTP request in flight, or None
    sent,           \* history: how many HTTP requests the most recent call has issued
    dispatched,     \* history: the transport the most recent call handed its request to, or None
    coros,          \* the coroutines suspended at an await while others run (a bag)
    ret             \* how the most recent call ended: what it returned or raised

vars == <<b, b2, lists, assigned, items_log, payloads, init_args, client, sync_client,
          async_client, transports, net, sent, dispatched, coros, ret>>

(***************************************************************************)
(* Bounds of the model.                                                    *)
(***************************************************************************)
MaxItems == 2       \* longest line-item list a builder holds
MaxDetails == 2     \* longest "details" list a reply body carries
MaxTransports == 3  \* most transports of one mode a client creates
MaxTasks == 2       \* most coroutines suspended at one time

(***************************************************************************)
(* Python basics.                                                          *)
(***************************************************************************)
None == <<>>
Some(v) == <<v>>

\* bool(x) of an Optional[str]: None and "" are falsy.
truthy_str(o) == o # None /\ o[1] # ""
\* bool(x) of an Optional[BaseModel]: a model instance is always truthy.
truthy_obj(o) == o # None
\* bool(x) of a list.
truthy_list(l) == Len(l) > 0
\* Mutant of truthy_optlist: `is not None` in place of truthiness.
truthy_optlist_notnone(o) == o # None
\* bool(x) of an Optional[list].
truthy_optlist(o) == o # None /\ Len(o[1]) > 0
\* Mutant of or_str: the default whatever the value.
or_str_default(o, d) == d
\* `a or d` for an Optional[str] a and a str d.
or_str(o, d) == IF truthy_str(o) THEN o[1] ELSE d

\* dict literals: one key, an optional key, no key.
Key(k, v) == k :> v
OptKey(k, o) == IF o = None THEN <<>> ELSE k :> o[1]

(***************************************************************************)
(* types.py: the records and their wire aliases.                           *)
(***************************************************************************)
Party(name, vat_id) ==
    [type |-> "Party", name |-> name, street |-> None, city |-> None,
     postal_code |-> None, country |-> None, vat_id |-> vat_id,
     email |-> None, phone |-> None]

LineItem(description, quantity, unit, unit_price, vat_rate) ==
    [type |-> "LineItem", description |-> description, quantity |-> quantity,
     unit |-> unit, unit_price |-> unit_price, vat_rate |-> vat_rate]

\* Customization() with every field at its default.
Customization ==
    [type |-> "Customization", logo_base64 |-> None, logo_width_mm |-> None,
     footer_text |-> None, accent_color |-> None]

ValidationError(path, code, message, severity) ==
    [type |-> "ValidationError", path |-> path, code |-> code,
     message |-> message, severity |-> severity]

\* model_dump(by_alias=True, exclude_none=True) of each model class.
dump_Party(p) ==
    Key("name", p.name) @@ OptKey("street", p.street) @@ OptKey("city", p.city)
    @@ OptKey("postalCode", p.postal_code) @@ OptKey("country", p.country)
    @@ OptKey("vatId", p.vat_id) @@ OptKey("email", p.email)
    @@ OptKey("phone", p.phone)

dump_LineItem(i) ==
    Key("description", i.description) @@ Key("quantity", i.quantity)
    @@ Key("unit", i.unit) @@ Key("unitPrice", i.unit_price)
    @@ Key("vatRate", i.vat_rate)

dump_PaymentInfo(p) ==
    OptKey("iban", p.iban) @@ OptKey("bic", p.bic) @@ OptKey("terms", p.terms)
    @@ OptKey("reference", p.reference)

dump_Customization(c) ==
    OptKey("logoBase64", c.logo_base64) @@ OptKey("logoWidthMm", c.logo_width_mm)
    @@ OptKey("footerText", c.footer_text) @@ OptKey("accentColor", c.accent_color)

dump_InvoiceData(i) ==
    Key("number", i.number) @@ Key("date", i.date)
    @@ OptKey("dueDate", i.due_date)
    @@ Key("seller", dump_Party(i.seller)) @@ Key("buyer", dump_Party(i.buyer))
    @@ Key("items", [k \in 1..Len(i.items) |-> dump_LineItem(i.items[k])])
    @@ OptKey("payment",
              IF i.payment = None THEN None ELSE Some(dump_PaymentInfo(i.payment[1])))
    @@ Key("currency", i.currency)

model_dump(request) ==
    Key("template", request.template) @@ Key("locale", request.locale)
    @@ Key("invoice", dump_InvoiceData(request.invoice))
    @@ OptKey("customization",
              IF request.customization = None THEN None
              ELSE Some(dump_Customization(request.customization[1])))

(***************************************************************************)
(* invoice.py: the two result classes.                                     *)
(***************************************************************************)
InvoiceSuccess(pdf_base64, filename, validation, account) ==
    [type |-> "InvoiceSuccess", pdf_base64 |-> pdf_base64, filename |-> filename,
     validation |-> validation, account |-> account]

InvoiceFailure(errors) == [type |-> "InvoiceFailure", errors |-> errors]

\* The `success` property of a result.
success(result) == result.type = "InvoiceSuccess"

(***************************************************************************)
(* invoice.py: the builder.  Each setter is the builder after the call.    *)
(***************************************************************************)
InvoiceBuilder ==
    [number |-> None, date |-> None, due_date |-> None, seller |-> None,
     buyer |-> None, items |-> <<>>, payment |-> None, currency |-> "EUR",
     template |-> "minimal", locale |-> "en", customization |-> Customization]

number(bld, value) == [bld EXCEPT !.number = Some(value)]

\* date.isoformat(): YYYY-MM-DD, zero padded.
zfill(n, width) ==
    IF width = 4
    THEN (IF n < 10 THEN "000" ELSE IF n < 100 THEN "00" ELSE IF n < 1000 THEN "0" ELSE "")
         \o ToString(n)
    ELSE (IF n < 10 THEN "0" ELSE "") \o ToString(n)
isoformat(d) == zfill(d.year, 4) \o "-" \o zfill(d.month, 2) \o "-" \o zfill(d.day, 2)

\* value is a str ([type |-> "str", s |-> ...]) or a datetime.date.
date(bld, value) ==
    IF value.type = "date"
    THEN [bld EXCEPT !.date = Some(isoformat(value))]
    ELSE [bld EXCEPT !.date = Some(value.s)]

seller(bld, name, vat_id) == [bld EXCEPT !.seller = Some(Party(name, vat_id))]
buyer(bld, name, vat_id) == [bld EXCEPT !.buyer = Some(Party(name, vat_id))]

add_item(bld, description, quantity, unit_price) ==
    [bld EXCEPT !.items =
        Append(@, LineItem(description, quantity, "C62", unit_price, 19))]
add_item_obj(bld, item) == [bld EXCEPT !.items = Append(@, item)]
\* Mutant of items: the list appended to what is there.
items_extend(bld, list) == [bld EXCEPT !.items = @ \o list]
items(bld, list) == [bld EXCEPT !.items = list]

logo_base64(bld, base64_data, width_mm) ==
    [bld EXCEPT !.customization.logo_base64 = Some(base64_data),
                !.customization.logo_width_mm = IF width_mm # None THEN width_mm ELSE @]
\* Mutant of footer_text: the text stored in the wrong field.
footer_text_wrongfield(bld, text) ==
    [bld EXCEPT !.customization.accent_color = Some(text)]
footer_text(bld, text) == [bld EXCEPT !.customization.footer_text = Some(text)]
accent_color(bld, color) == [bld EXCEPT !.customization.accent_color = Some(color)]

\* The files logo_file can be pointed at: readable (with their bytes) or not.
Files ==
    [p \in {"logo.png", "empty.png", "missing.png"} |->
        CASE p = "logo.png" -> [readable |-> TRUE, bytes |-> <<137, 80, 78, 71>>]
          [] p = "empty.png" -> [readable |-> TRUE, bytes |-> <<>>]
          [] p = "missing.png" -> [readable |-> FALSE, bytes |-> <<>>]]

\* base64.b64encode(bytes).decode("utf-8") on the bytes of Files.
b64encode(bytes) ==
    CASE bytes = <<>> -> ""
      [] bytes = <<137, 80, 78, 71>> -> "iVBORw=="

\* logo_file: read_bytes() raises for an unreadable path, before any assignment.
logo_file(bld, file_path, width_mm) ==
    logo_base64(bld, b64encode(Files[file_path].bytes), width_mm)

\* Mutant of required_errors: the checks chained with elif, so that only the
\* first missing field is reported.
required_errors_first(bld) ==
    IF ~truthy_str(bld.number)
    THEN <<ValidationError("$.invoice.number", "REQUIRED",
                           "Invoice number is required", "error")>>
    ELSE IF ~truthy_str(bld.date)
    THEN <<ValidationError("$.invoice.date", "REQUIRED",
                           "Invoice date is required", "error")>>
    ELSE IF ~truthy_obj(bld.seller)
    THEN <<ValidationError("$.invoice.seller", "REQUIRED",
                           "Seller information is required", "error")>>
    ELSE IF ~truthy_obj(bld.buyer)
    THEN <<ValidationError("$.invoice.buyer", "REQUIRED",
                           "Buyer information is required", "error")>>
    ELSE IF ~truthy_list(bld.items)
    THEN <<ValidationError("$.invoice.items", "REQUIRED",
                           "At least one line item is required", "error")>>
    ELSE <<>>

\* invoice.py:268-309: the required-field checks, every one of them made.
required_errors(bld) ==
    LET e1 == IF ~truthy_str(bld.number)
              THEN <<ValidationError("$.invoice.number", "REQUIRED",
                                     "Invoice number is required", "error")>>
              ELSE <<>>
        e2 == IF ~truthy_str(bld.date)
              THEN <<ValidationError("$.invoice.date", "REQUIRED",
                                     "Invoice date is required", "error")>>
              ELSE <<>>
        e3 == IF ~truthy_obj(bld.seller)
              THEN <<ValidationError("$.invoice.seller", "REQUIRED",
                                     "Seller information is required", "error")>>
              ELSE <<>>
        e4 == IF ~truthy_obj(bld.buyer)
              THEN <<ValidationError("$.invoice.buyer", "REQUIRED",
                                     "Buyer information is required", "error")>>
              ELSE <<>>
        e5 == IF ~truthy_list(bld.items)
              THEN <<ValidationError("$.invoice.items", "REQUIRED",
                                     "At least one line item is required", "error")>>
              ELSE <<>>
    IN  e1 \o e2 \o e3 \o e4 \o e5

\* Mutant of customization_if_content: the customization in every request.
customization_always(bld) == Some(bld.customization)

\* invoice.py:314-321: the customization only if there is content.
customization_if_content(bld) ==
    IF \/ truthy_str(bld.customization.logo_base64)
       \/ truthy_str(bld.customization.footer_text)
       \/ truthy_str(bld.customization.accent_color)
    THEN Some(bld.customization)
    ELSE None

\* _build_request (invoice.py:266-337): an InvoiceFailure, or a GenerateRequest.
_build_request(bld) ==
    LET errors == required_errors(bld)
    IN  IF truthy_list(errors)
        THEN InvoiceFailure(errors)
        ELSE [type |-> "GenerateRequest",
              template |-> bld.template,
              locale |-> bld.locale,
              invoice |-> [type |-> "InvoiceData",
                           number |-> bld.number[1],
                           date |-> bld.date[1],
                           due_date |-> bld.due_date,
                           seller |-> bld.seller[1],
                           buyer |-> bld.buyer[1],
                           items |-> bld.items,
                           payment |-> bld.payment,
                           currency |-> bld.currency],
              customization |-> customization_if_content(bld)]

(***************************************************************************)
(* errors.py: the exceptions, and how a call ends.                         *)
(***************************************************************************)
\* Mutant of EnvoiceApiError: the code not kept.
EnvoiceApiError_nocode(message, status_code, code) ==
    [type |-> "EnvoiceApiError", message |-> message,
     status_code |-> status_code, code |-> None]

EnvoiceApiError(message, status_code, code) ==
    [type |-> "EnvoiceApiError", message |-> message,
     status_code |-> status_code, code |-> code]

EnvoiceQuotaExceededError(message) ==
    [type |-> "EnvoiceQuotaExceededError", message |-> message,
     status_code |-> 402, code |-> Some("quota_exceeded")]

EnvoiceNetworkError(message, cause) ==
    [type |-> "EnvoiceNetworkError", message |-> message, cause |-> cause]

\* isinstance(e, EnvoiceApiError): the class and its subclass.
isinstance_EnvoiceApiError(e) ==
    e.type \in {"EnvoiceApiError", "EnvoiceQuotaExceededError"}

\* isinstance(e, EnvoiceError): the SDK's own hierarchy.
isinstance_EnvoiceError(e) ==
    e.type \in {"EnvoiceError", "EnvoiceValidationError", "EnvoiceApiError",
                "EnvoiceNetworkError", "EnvoiceQuotaExceededError"}

\* Exceptions of the libraries the client calls, which it does not define.
JSONDecodeError == [type |-> "json.JSONDecodeError"]
PydanticValidationError == [type |-> "pydantic.ValidationError"]
OSError == [type |-> "OSError"]
\* client.py:43: raise ValueError("API key is required").
ValueError == [type |-> "ValueError", message |-> "API key is required"]

Return(v) == [kind |-> "return", value |-> v]
Raise(e) == [kind |-> "raise", value |-> e]

(***************************************************************************)
(* What the transport answers: an HTTP response, or a transport fault.     *)
(***************************************************************************)
Statuses == {200, 201, 402, 422, 500}

\* Entries of a body's "details" list as JSON: a key is present or not.
DetailA ==
    [path |-> Some("$.invoice.seller.vatId"), code |-> Some("INVALID_FORMAT"),
     message |-> Some("Invalid VAT ID format"), severity |-> None]
DetailB ==
    [path |-> Some("$.invoice.date"), code |-> Some("INVALID_DATE"),
     message |-> Some("Date is in the future"), severity |-> Some("warning")]
\* An entry without its required message.
DetailNoMessage ==
    [path |-> Some("$.invoice.buyer"), code |-> Some("REQUIRED"),
     message |-> None, severity |-> None]
WireDetails == {DetailA, DetailB, DetailNoMessage}

DetailLists == UNION { [1..n -> WireDetails] : n \in 0..MaxDetails }

\* JSON bodies shaped like the error response, with each key present or not.
ErrorBodies ==
    [shape : {"error"},
     error : {None, Some("internal_error")},
     message : {None, Some(""), Some("Monthly quota exceeded")},
     details : {None} \cup {Some(d) : d \in DetailLists}]

\* JSON bodies shaped like the generate endpoint's success response.
GenerateBodies ==
    [shape : {"generate"},
     pdf_base64 : {"JVBERi0xLjQK"},
     filename : {"invoice-2026-001.pdf"},
     validation : {[status |-> "valid", profile |-> "EN16931", version |-> "2.3.2"]},
     account : {None, Some([remaining |-> 499, plan |-> "starter"])}]

\* JSON bodies shaped like the account endpoint's success response.
AccountBodies ==
    [shape : {"account"}, remaining : {450}, plan : {"starter"}]

\* A body that is not JSON at all.
NotJson == [shape |-> "notjson"]

HttpResponse(status_code, body) ==
    [type |-> "Response", status_code |-> status_code, body |-> body]

\* httpx.TimeoutException is a subclass of httpx.RequestError.
TransportFaults ==
    { [type |-> "httpx.ConnectTimeout", str |-> "timed out"],
      [type |-> "httpx.ConnectError", str |-> "connection refused"] }
isinstance_TimeoutException(e) == e.type = "httpx.ConnectTimeout"
isinstance_RequestError(e) == e.type \in {"httpx.ConnectTimeout", "httpx.ConnectError"}

\* response.is_success
is_success(response) == response.status_code >= 200 /\ response.status_code <= 299

\* response.json(): the decoded body, or json.JSONDecodeError.
json(response) ==
    IF response.body.shape = "notjson" THEN Raise(JSONDecodeError)
    ELSE Return(response.body)

(***************************************************************************)
(* types.py: pydantic's model_validate of the response models.  Each gives *)
(* Return(model) or Raise(pydantic.ValidationError).                       *)
(***************************************************************************)
\* Mutant of ValidationError_model_validate: "warning" as the default severity.
ValidationError_model_validate_warning(d) ==
    IF /\ d.path # None /\ d.code # None /\ d.message # None
       /\ (d.severity = None \/ d.severity[1] \in {"error", "warning"})
    THEN Return(ValidationError(d.path[1], d.code[1], d.message[1],
                                IF d.severity = None THEN "warning" ELSE d.severity[1]))
    ELSE Raise(PydanticValidationError)

ValidationError_model_validate(d) ==
    IF /\ d.path # None /\ d.code # None /\ d.message # None
       /\ (d.severity = None \/ d.severity[1] \in {"error", "warning"})
    THEN Return(ValidationError(d.path[1], d.code[1], d.message[1],
                                IF d.severity = None THEN "error" ELSE d.severity[1]))
    ELSE Raise(PydanticValidationError)

ErrorResponse(error, message, details) ==
    [type |-> "ErrorResponse", error |-> error, message |-> message,
     details |-> details]

ErrorResponse_model_validate(data) ==
    IF /\ data.shape = "error"
       /\ data.error # None
       /\ \/ data.details = None
          \/ \A k \in 1..Len(data.details[1]) :
                ValidationError_model_validate(data.details[1][k]).kind = "return"
    THEN Return(ErrorResponse(
            data.error[1],
            data.message,
            IF data.details = None THEN None
            ELSE Some([k \in 1..Len(data.details[1]) |->
                        ValidationError_model_validate(data.details[1][k]).value])))
    ELSE Raise(PydanticValidationError)

AccountInfo(remaining, plan) ==
    [type |-> "AccountInfo", remaining |-> remaining, plan |-> plan,
     overage_count |-> None, overage_allowed |-> None, warning |-> None]

AccountInfo_model_validate(data) ==
    IF data.shape = "account"
    THEN Return(AccountInfo(data.remaining, data.plan))
    ELSE Raise(PydanticValidationError)

GenerateResponse_model_validate(data) ==
    IF data.shape = "generate"
    THEN Return([type |-> "GenerateResponse",
                 pdf_base64 |-> data.pdf_base64,
                 filename |-> data.filename,
                 validation |-> [type |-> "ValidationResult",
                                 status |-> data.validation.status,
                                 profile |-> data.validation.profile,
                                 version |-> data.validation.version,
                                 warnings |-> None],
                 account |-> IF data.account = None THEN None
                             ELSE Some(AccountInfo(data.account[1].remaining,
                                                   data.account[1].plan))])
    ELSE Raise(PydanticValidationError)

(***************************************************************************)
(* client.py: the classification of a response to generate.                *)
(***************************************************************************)
\* Mutant of error_data_of: the synthesized body without its message.
error_data_of_nomessage(response) ==
    LET decoded == json(response)
        parsed == IF decoded.kind = "raise" THEN decoded
                  ELSE ErrorResponse_model_validate(decoded.value)
    IN  IF parsed.kind = "raise"
        THEN ErrorResponse("unknown_error", None, None)
        ELSE parsed.value

\* client.py:150-153: the parsed error body, or the synthesized one when
\* response.json() or model_validate raises.
error_data_of(response) ==
    LET decoded == json(response)
        parsed == IF decoded.kind = "raise" THEN decoded
                  ELSE ErrorResponse_model_validate(decoded.value)
    IN  IF parsed.kind = "raise"
        THEN ErrorResponse("unknown_error",
                           Some("HTTP " \o ToString(response.status_code)), None)
        ELSE parsed.value

\* Mutant of classify_error: every 422 returned as a failure, with whatever
\* details there are.
classify_error_any422(response, error_data) ==
    IF response.status_code = 402
    THEN Raise(EnvoiceQuotaExceededError(or_str(error_data.message, "Quota exceeded")))
    ELSE IF response.status_code = 422
    THEN Return(InvoiceFailure(IF error_data.details = None THEN <<>>
                               ELSE error_data.details[1]))
    ELSE Raise(EnvoiceApiError(
            or_str(error_data.message,
                   IF error_data.error # "" THEN error_data.error ELSE "Unknown error"),
            response.status_code,
            Some(error_data.error)))

\* client.py:155-165: what the error path does with the parsed error body.
classify_error(response, error_data) ==
    IF response.status_code = 402
    THEN Raise(EnvoiceQuotaExceededError(or_str(error_data.message, "Quota exceeded")))
    ELSE IF response.status_code = 422 /\ truthy_optlist(error_data.details)
    THEN Return(InvoiceFailure(error_data.details[1]))
    ELSE Raise(EnvoiceApiError(
            or_str(error_data.message,
                   IF error_data.error # "" THEN error_data.error ELSE "Unknown error"),
            response.status_code,
            Some(error_data.error)))

\* Mutant of _handle_response: every success status taken as a success.
_handle_response_2xx(response) ==
    IF is_success(response)
    THEN LET decoded == json(response)
             data == IF decoded.kind = "raise" THEN decoded
                     ELSE GenerateResponse_model_validate(decoded.value)
         IN  IF data.kind = "raise" THEN data
             ELSE Return(InvoiceSuccess(data.value.pdf_base64, data.value.filename,
                                        data.value.validation, data.value.account))
    ELSE classify_error(response, error_data_of(response))

\* client.py:138-165.
_handle_response(response) ==
    IF response.status_code = 200
    THEN LET decoded == json(response)
             data == IF decoded.kind = "raise" THEN decoded
                     ELSE GenerateResponse_model_validate(decoded.value)
         IN  IF data.kind = "raise" THEN data
             ELSE Return(InvoiceSuccess(data.value.pdf_base64, data.value.filename,
                                        data.value.validation, data.value.account))
    ELSE classify_error(response, error_data_of(response))

\* client.py:106-107, 123-124: a pre-built failure is returned as it is.
is_prebuilt_failure(request) == request.type = "InvoiceFailure"

\* _generate_sync (client.py:104-119), given what client.post answers.  For a
\* pre-built failure the transport is never asked and `reply` is not read.
_generate_sync(request, reply) ==
    IF is_prebuilt_failure(request) THEN Return(request)
    ELSE IF reply.type = "Response" THEN _handle_response(reply)
    ELSE IF isinstance_TimeoutException(reply)
    THEN Raise(EnvoiceNetworkError("Request timeout", None))
    ELSE IF isinstance_RequestError(reply)
    THEN Raise(EnvoiceNetworkError(reply.str, Some(reply)))
    ELSE Raise(reply)

\* Mutant of _generate_async: the except clauses in the other order, so that
\* a timeout is caught as a plain RequestError.
_generate_async_except_order(request, reply) ==
    IF is_prebuilt_failure(request) THEN Return(request)
    ELSE IF reply.type = "Response" THEN _handle_response(reply)
    ELSE IF isinstance_RequestError(reply)
    THEN Raise(EnvoiceNetworkError(reply.str, Some(reply)))
    ELSE IF isinstance_TimeoutException(reply)
    THEN Raise(EnvoiceNetworkError("Request timeout", None))
    ELSE Raise(reply)

\* _generate_async (client.py:121-136), given what `await client.post` answers.
_generate_async(request, reply) ==
    IF is_prebuilt_failure(request) THEN Return(request)
    ELSE IF reply.type = "Response" THEN _handle_response(reply)
    ELSE IF isinstance_TimeoutException(reply)
    THEN Raise(EnvoiceNetworkError("Request timeout", None))
    ELSE IF isinstance_RequestError(reply)
    THEN Raise(EnvoiceNetworkError(reply.str, Some(reply)))
    ELSE Raise(reply)

\* The json= argument of client.post in each mode (client.py:113, 130).
generate_sync_json(request) == model_dump(request)
generate_async_json(request) == model_dump(request)

(***************************************************************************)
(* client.py: validate and get_account, given the transport's reply.       *)
(***************************************************************************)
\* client.py:184-190 (and 207-213, 227-233, 247-253): the error branch, with
\* no handler around json() and model_validate.
raise_api_error(response) ==
    LET decoded == json(response)
        parsed == IF decoded.kind = "raise" THEN decoded
                  ELSE ErrorResponse_model_validate(decoded.value)
    IN  IF parsed.kind = "raise" THEN parsed
        ELSE Raise(EnvoiceApiError(or_str(parsed.value.message, parsed.value.error),
                                   response.status_code,
                                   Some(parsed.value.error)))

\* Mutant of network_error: the underlying exception not kept as the cause.
network_error_nocause(fault) ==
    IF isinstance_TimeoutException(fault)
    THEN Raise(EnvoiceNetworkError("Request timeout", None))
    ELSE Raise(EnvoiceNetworkError(fault.str, None))

\* The except clauses every operation ends with.
network_error(fault) ==
    IF isinstance_TimeoutException(fault)
    THEN Raise(EnvoiceNetworkError("Request timeout", None))
    ELSE IF isinstance_RequestError(fault)
    THEN Raise(EnvoiceNetworkError(fault.str, Some(fault)))
    ELSE Raise(fault)

validate(reply) ==
    IF reply.type # "Response" THEN network_error(reply)
    ELSE IF ~is_success(reply) THEN raise_api_error(reply)
    ELSE json(reply)

validate_async(reply) ==
    IF reply.type # "Response" THEN network_error(reply)
    ELSE IF ~is_success(reply) THEN raise_api_error(reply)
    ELSE json(reply)

get_account(reply) ==
    IF reply.type # "Response" THEN network_error(reply)
    ELSE IF ~is_success(reply) THEN raise_api_error(reply)
    ELSE LET decoded == json(reply)
         IN  IF decoded.kind = "raise" THEN decoded
             ELSE AccountInfo_model_validate(decoded.value)

get_account_async(reply) ==
    IF reply.type # "Response" THEN network_error(reply)
    ELSE IF ~is_success(reply) THEN raise_api_error(reply)
    ELSE LET decoded == json(reply)
         IN  IF decoded.kind = "raise" THEN decoded
             ELSE AccountInfo_model_validate(decoded.value)

(***************************************************************************)
(* client.py: the two lazily created transports.                           *)
(***************************************************************************)
\* A URL is its text without trailing slashes, and how many slashes trail it.
\* api_url.rstrip("/") removes them all.
rstrip(url) == [url EXCEPT !.slashes = 0]

\* Mutant of __init__: no check of the key.
__init__unchecked(api_key, api_url, timeout) ==
    Return([type |-> "EnvoiceClient",
            api_key |-> IF api_key = None THEN "" ELSE api_key[1],
            api_url |-> rstrip(api_url), timeout |-> timeout])

\* __init__ (client.py:28-50): raises, or gives the client's fixed fields.  A
\* key is None (not a str at all) or a str.
__init__(api_key, api_url, timeout) ==
    IF ~truthy_str(api_key) THEN Raise(ValueError)
    ELSE Return([type |-> "EnvoiceClient", api_key |-> api_key[1],
                 api_url |-> rstrip(api_url), timeout |-> timeout])

\* httpx.Client(base_url=..., timeout=..., headers=...) for the client `self`;
\* `id` is the new object's identity.
httpx_Client(self, id) ==
    [type |-> "httpx.Client", id |-> id, base_url |-> self.api_url,
     timeout |-> self.timeout, headers |-> Key("X-API-Key", self.api_key)]
httpx_AsyncClient(self, id) ==
    [type |-> "httpx.AsyncClient", id |-> id, base_url |-> self.api_url,
     timeout |-> self.timeout, headers |-> Key("X-API-Key", self.api_key)]

\* Mutant of _get_sync_client: a new transport for every call.
_get_sync_client_always_new(self, current, id) == Some(httpx_Client(self, id))

\* The transport attribute after the getter ran; the getter returns it.
_get_sync_client(self, current, id) ==
    IF current = None THEN Some(httpx_Client(self, id)) ELSE current
_get_async_client(self, current, id) ==
    IF current = None THEN Some(httpx_AsyncClient(self, id)) ELSE current

\* Mutant of close: the transport closed but the attribute not reset.
close_keep(current) == current

\* close() and aclose(): the transport attribute after the call.
close(current) == IF current # None THEN None ELSE current
aclose(current) == IF current # None THEN None ELSE current

\* The transport close() / aclose() calls .close() / .aclose() on, if any
\* (client.py:74-75, 80-81).
closed_by(current) == IF current # None THEN current ELSE None

(***************************************************************************)
(* The inputs callers and the server are taken to give.                    *)
(***************************************************************************)
NumberValues == {"", "2026-001"}
DateValues ==
    { [type |-> "str", s |-> ""], [type |-> "str", s |-> "2026-01-15"],
      [type |-> "date", year |-> 2026, month |-> 1, day |-> 15] }
SellerArgs == { <<"Acme GmbH", Some("DE123456789")>> }
BuyerArgs == { <<"Customer AG", None>> }
ItemArgs == { <<"Consulting", 8, 150>> }
ItemObjs == { LineItem("Travel", 1, "C62", 90, 7) }
ItemLists == UNION { [1..n -> ItemObjs] : n \in 0..MaxItems }
LogoData == {"", "iVBORw=="}
LogoWidths == {None, Some(50)}
FooterTexts == {"", "Thank you"}
AccentColors == {"", "#ff6600"}
\* EnvoiceClient(api_key, api_url=..., timeout=...): a key that is None, empty
\* or a key; the default URL or another with slashes trailing it.
ApiKeys == {None, Some(""), Some("env_live_key")}
ApiUrls == { [text |-> "https://api.envoice.dev", slashes |-> 0],
             [text |-> "https://staging.envoice.dev", slashes |-> 2] }
Timeouts == {30, 5}

Bodies == {NotJson} \cup ErrorBodies \cup GenerateBodies \cup AccountBodies
Replies ==
    { HttpResponse(st, body) : st \in Statuses, body \in Bodies } \cup TransportFaults

\* The request generate_invoice is called with: what a complete builder builds.
SampleRequest ==
    _build_request(
        add_item(buyer(seller(date(number(InvoiceBuilder, "2026-001"),
                                   [type |-> "str", s |-> "2026-01-15"]),
                              "Acme GmbH", Some("DE123456789")),
                       "Customer AG", None),
                 "Consulting", 8, 150))

\* One body of each kind, for the runs that vary the builder instead.
SampleBodies ==
    { NotJson,
      [shape |-> "generate", pdf_base64 |-> "JVBERi0xLjQK",
       filename |-> "invoice-2026-001.pdf",
       validation |-> [status |-> "valid", profile |-> "EN16931", version |-> "2.3.2"],
       account |-> None],
      [shape |-> "error", error |-> Some("internal_error"),
       message |-> Some("Monthly quota exceeded"), details |-> None],
      [shape |-> "error", error |-> Some("internal_error"),
       message |-> None, details |-> Some(<<DetailA, DetailB>>)] }
SampleReplies ==
    { HttpResponse(st, body) : st \in Statuses, body \in SampleBodies }
    \cup TransportFaults

(***************************************************************************)
(* The state machine.  A call that sends a request is two steps: the call  *)
(* up to client.post / client.get, and the reply's arrival with the rest   *)
(* of the handler.  While a request is in flight nothing else runs.        *)
(***************************************************************************)
NoneType == [type |-> "NoneType"]
Self == [type |-> "InvoiceBuilder"]

Done(op, outcome, reply) ==
    [op |-> op, kind |-> outcome.kind, value |-> outcome.value, reply |-> reply]
Pending(op) == [op |-> op, kind |-> "pending", value |-> NoneType, reply |-> None]

HttpRequest(op, method, url, body, request) ==
    [op |-> op, method |-> method, url |-> url, json |-> body, request |-> request]

\* A client exists and no request of it is in flight.
Idle == client # None /\ net = None

\* The histories' first values: no items() call and nothing added, no
\* transport created in either mode.
NoItems == [given |-> <<>>, added |-> <<>>]
NoTransports == [sync |-> <<>>, async |-> <<>>]

\* The record of created transports after a getter ran: a transport the getter
\* made is entered, not yet closed.
Opened(log, before, after) == IF after # before THEN Append(log, 0) ELSE log
\* ... and after a release: the transport it closed has one more close.
Closed(log, target) ==
    IF target = None THEN log ELSE [log EXCEPT ![target[1].id] = @ + 1]
\* The getter may create a transport only below the bound.
CanOpen(log, current) == current # None \/ Len(log) < MaxTransports

\* What a call that hands a request to a transport leaves in the history: the
\* transport's kind and identity, and how often it had been closed by then.
Dispatch(op, transport, log) ==
    Some([op |-> op, transport |-> transport[1].type, id |-> transport[1].id,
          closes |-> log[transport[1].id]])

\* No builder's _items is the caller's list object; the caller's list.
Unshared(list) == [caller |-> list, holders |-> {}]

\* The last two of a sequence.
LastTwo(s) == IF Len(s) > 2 THEN Tail(s) ELSE s

\* EnvoiceClient("env_sandbox_key"): the defaults of client.py:32-33.
DefaultUrl == [text |-> "https://api.envoice.dev", slashes |-> 0]
DefaultArgs == [api_key |-> Some("env_sandbox_key"), api_url |-> DefaultUrl, timeout |-> 30]

\* The builder after number, date, seller and buyer were set, and after an
\* item was added as well.
ReadyBuilder ==
    buyer(seller(date(number(InvoiceBuilder, "2026-001"),
                      [type |-> "str", s |-> "2026-01-15"]),
                 "Acme GmbH", Some("DE123456789")),
          "Customer AG", None)
FullBuilder == add_item(ReadyBuilder, "Consulting", 8, 150)

\* After EnvoiceClient(args): nothing allocated, nothing sent.
Constructed(args) ==
    LET made == __init__(args.api_key, args.api_url, args.timeout)
    IN  /\ init_args = args
        /\ client = IF made.kind = "return" THEN Some(made.value) ELSE None
        /\ sync_client = None
        /\ async_client = None
        /\ transports = NoTransports
        /\ net = None
        /\ sent = 0
        /\ dispatched = None
        /\ coros = EmptyBag

\* client = EnvoiceClient("env_sandbox_key"); client.invoice()
Init ==
    /\ Constructed(DefaultArgs)
    /\ b = InvoiceBuilder
    /\ b2 = InvoiceBuilder
    /\ lists = Unshared(<<>>)
    /\ assigned = <<>>
    /\ items_log = NoItems
    /\ payloads = <<>>
    /\ ret = Done("invoice", Return(Self), None)

\* ... and then number, date, seller and buyer set on that builder.
InitReady ==
    /\ Constructed(DefaultArgs)
    /\ b = ReadyBuilder
    /\ b2 = InvoiceBuilder
    /\ lists = Unshared(<<>>)
    /\ assigned = <<>>
    /\ items_log = NoItems
    /\ payloads = <<>>
    /\ ret = Done("set", Return(Self), None)

\* EnvoiceClient(...) with any arguments; if it did not raise, a builder of
\* the client with every required field set.
InitLifecycle ==
    \E api_key \in ApiKeys, api_url \in ApiUrls, timeout \in Timeouts :
        LET args == [api_key |-> api_key, api_url |-> api_url, timeout |-> timeout]
            made == __init__(api_key, api_url, timeout)
        IN  /\ Constructed(args)
            /\ b2 = InvoiceBuilder
            /\ lists = Unshared(<<>>)
            /\ assigned = <<>>
            /\ payloads = <<>>
            /\ IF made.kind = "return"
               THEN /\ b = FullBuilder
                    /\ items_log = [given |-> <<>>, added |-> FullBuilder.items]
                    /\ ret = Done("set", Return(Self), None)
               ELSE /\ b = InvoiceBuilder
                    /\ items_log = NoItems
                    /\ ret = Done("__init__", made, None)

\* A setter: the builder changes, the call returns the builder.
Setter(bld) ==
    /\ Idle
    /\ b' = bld
    /\ payloads' = <<>>
    /\ sent' = 0
    /\ dispatched' = None
    /\ ret' = Done("set", Return(Self), None)
    /\ UNCHANGED <<init_args, client, sync_client, async_client, transports, net, coros>>

\* A setter that assigns a field or changes the builder's own Customization
\* (invoice.py:86, a Customization per builder): no other object changes.
Set(bld) == Setter(bld) /\ UNCHANGED <<b2, lists>>

\* self._items.append(item) (invoice.py:179, 192) changes the list object
\* _items refers to: the caller's list if the builder was given it, and with
\* it the items of the other builder if that was given the same list.
AppendInPlace(item) ==
    /\ lists' = IF "b" \in lists.holders
                THEN [lists EXCEPT !.caller = Append(@, item)]
                ELSE lists
    /\ b2' = IF {"b", "b2"} \subseteq lists.holders
             THEN [b2 EXCEPT !.items = Append(@, item)]
             ELSE b2

CallNumber == \E v \in NumberValues : Set(number(b, v)) /\ UNCHANGED <<assigned, items_log>>
CallDate == \E v \in DateValues : Set(date(b, v)) /\ UNCHANGED <<assigned, items_log>>
CallSeller ==
    \E a \in SellerArgs : Set(seller(b, a[1], a[2])) /\ UNCHANGED <<assigned, items_log>>
CallBuyer ==
    \E a \in BuyerArgs : Set(buyer(b, a[1], a[2])) /\ UNCHANGED <<assigned, items_log>>
CallAddItem ==
    /\ Len(b.items) < MaxItems
    /\ \E a \in ItemArgs :
        /\ Setter(add_item(b, a[1], a[2], a[3]))
        /\ AppendInPlace(LineItem(a[1], a[2], "C62", a[3], 19))
        /\ items_log' = [items_log EXCEPT
                            !.added = Append(@, LineItem(a[1], a[2], "C62", a[3], 19))]
    /\ UNCHANGED assigned
CallAddItemObj ==
    /\ Len(b.items) < MaxItems
    /\ \E i \in ItemObjs :
        /\ Setter(add_item_obj(b, i))
        /\ AppendInPlace(i)
        /\ items_log' = [items_log EXCEPT !.added = Append(@, i)]
    /\ UNCHANGED assigned
\* items(list) with a list no one else holds: _items is that new object.
CallItems ==
    \E l \in ItemLists :
        /\ Setter(items(b, l))
        /\ lists' = [lists EXCEPT !.holders = @ \ {"b"}]
        /\ items_log' = [given |-> l, added |-> <<>>]
        /\ UNCHANGED <<assigned, b2>>

\* items(shared) with the list the caller holds (invoice.py:197,
\* `self._items = items`): _items is the caller's list object itself.
CallItemsShared ==
    /\ Setter(items(b, lists.caller))
    /\ lists' = [lists EXCEPT !.holders = @ \cup {"b"}]
    /\ items_log' = [given |-> lists.caller, added |-> <<>>]
    /\ UNCHANGED <<assigned, b2>>

\* The same call on the second builder.
OtherItemsShared ==
    /\ Idle
    /\ b2' = items(b2, lists.caller)
    /\ lists' = [lists EXCEPT !.holders = @ \cup {"b2"}]
    /\ UNCHANGED <<b, assigned, items_log, payloads, init_args, client, sync_client,
                   async_client, transports, net, sent, dispatched, coros, ret>>

CallLogoBase64 ==
    \E d \in LogoData, w \in LogoWidths :
        /\ Set(logo_base64(b, d, w))
        /\ assigned' = Key("logo_base64", d) @@ OptKey("logo_width_mm", w) @@ assigned
        /\ UNCHANGED items_log
CallLogoFile ==
    \E p \in DOMAIN Files, w \in LogoWidths :
        IF Files[p].readable
        THEN /\ Set(logo_file(b, p, w))
             /\ assigned' = Key("logo_base64", b64encode(Files[p].bytes))
                            @@ OptKey("logo_width_mm", w) @@ assigned
             /\ UNCHANGED items_log
        ELSE /\ Idle
             /\ ret' = Done("set", Raise(OSError), None)
             /\ payloads' = <<>>
             /\ sent' = 0
             /\ dispatched' = None
             /\ UNCHANGED <<b, b2, lists, assigned, items_log, init_args, client,
                            sync_client, async_client, transports, net, coros>>
CallFooterText ==
    \E t \in FooterTexts :
        /\ Set(footer_text(b, t))
        /\ assigned' = Key("footer_text", t) @@ assigned
        /\ UNCHANGED items_log
CallAccentColor ==
    \E c \in AccentColors :
        /\ Set(accent_color(b, c))
        /\ assigned' = Key("accent_color", c) @@ assigned
        /\ UNCHANGED items_log

\* A synchronous operation up to client.post / client.get: the transport is
\* fetched (and created if there is none), and the one request goes out.
SendSync(op, method, url, body, request) ==
    /\ Idle
    /\ CanOpen(transports.sync, sync_client)
    /\ sync_client' = _get_sync_client(client[1], sync_client, Len(transports.sync) + 1)
    /\ transports' = [transports EXCEPT !.sync = Opened(@, sync_client, sync_client')]
    /\ net' = Some(HttpRequest(op, method, url, body, request))
    /\ sent' = 1
    /\ dispatched' = Dispatch(op, sync_client', transports'.sync)
    /\ ret' = Pending(op)
    /\ UNCHANGED <<b2, lists, init_args, client, async_client, coros>>

\* An asynchronous operation up to `await client.post` / `await client.get`.
SendAsync(op, method, url, body, request) ==
    /\ Idle
    /\ CanOpen(transports.async, async_client)
    /\ async_client' = _get_async_client(client[1], async_client, Len(transports.async) + 1)
    /\ transports' = [transports EXCEPT !.async = Opened(@, async_client, async_client')]
    /\ net' = Some(HttpRequest(op, method, url, body, request))
    /\ sent' = 1
    /\ dispatched' = Dispatch(op, async_client', transports'.async)
    /\ ret' = Pending(op)
    /\ UNCHANGED <<b2, lists, init_args, client, sync_client, coros>>

\* An operation that ends without touching the transports or the network.
Local(op, outcome) ==
    /\ Idle
    /\ ret' = Done(op, outcome, None)
    /\ sent' = 0
    /\ dispatched' = None
    /\ UNCHANGED <<init_args, client, sync_client, async_client, transports, net, coros>>

\* Mutant of CallGenerate: the builder's items are consumed by the call.
CallGenerate_consuming ==
    LET request == _build_request(b)
    IN  IF is_prebuilt_failure(request)
        THEN /\ Local("generate", _generate_sync(request, None))
             /\ UNCHANGED <<b, b2, lists, assigned, items_log, payloads>>
        ELSE /\ SendSync("generate", "POST", "/v1/generate",
                         generate_sync_json(request), request)
             /\ payloads' = LastTwo(Append(payloads, generate_sync_json(request)))
             /\ b' = [b EXCEPT !.items = <<>>]
             /\ UNCHANGED <<assigned, items_log>>

\* generate() (invoice.py:258-260) up to client.post.
CallGenerate ==
    LET request == _build_request(b)
    IN  IF is_prebuilt_failure(request)
        THEN /\ Local("generate", _generate_sync(request, None))
             /\ UNCHANGED <<b, b2, lists, assigned, items_log, payloads>>
        ELSE /\ SendSync("generate", "POST", "/v1/generate",
                         generate_sync_json(request), request)
             /\ payloads' = LastTwo(Append(payloads, generate_sync_json(request)))
             /\ UNCHANGED <<b, assigned, items_log>>

\* generate_async() (invoice.py:262-264) up to `await client.post`.
CallGenerateAsync ==
    LET request == _build_request(b)
    IN  IF is_prebuilt_failure(request)
        THEN /\ Local("generate_async", _generate_async(request, None))
             /\ UNCHANGED <<b, b2, lists, assigned, items_log, payloads>>
        ELSE /\ SendAsync("generate_async", "POST", "/v1/generate",
                          generate_async_json(request), request)
             /\ payloads' = LastTwo(Append(payloads, generate_async_json(request)))
             /\ UNCHANGED <<b, assigned, items_log>>

\* The handler's end: what it returned or raised is the call's outcome, and no
\* further request goes out.
Finish(outcome, reply) ==
    /\ ret' = Done(net[1].op, outcome, Some(reply))
    /\ net' = None
    /\ UNCHANGED <<b, b2, lists, assigned, items_log, payloads, init_args, client,
                   sync_client, async_client, transports, sent, dispatched, coros>>

\* The reply to a generate request arrives and the handler finishes.
ReceiveGenerate ==
    /\ net # None
    /\ net[1].op \in {"generate", "generate_async"}
    /\ \E reply \in SampleReplies :
        Finish(IF net[1].op = "generate"
               THEN _generate_sync(net[1].request, reply)
               ELSE _generate_async(net[1].request, reply),
               reply)

\* close() and __exit__, which calls it (client.py:72-76, 88-90).
ReleaseSync(op) ==
    /\ Idle
    /\ transports' = [transports EXCEPT !.sync = Closed(@, closed_by(sync_client))]
    /\ sync_client' = close(sync_client)
    /\ ret' = Done(op, Return(NoneType), None)
    /\ sent' = 0
    /\ dispatched' = None
    /\ UNCHANGED <<b, b2, lists, assigned, items_log, payloads, init_args, client,
                   async_client, net, coros>>

\* aclose() and __aexit__, which awaits it (client.py:78-82, 96-98).
ReleaseAsync(op) ==
    /\ Idle
    /\ transports' = [transports EXCEPT !.async = Closed(@, closed_by(async_client))]
    /\ async_client' = aclose(async_client)
    /\ ret' = Done(op, Return(NoneType), None)
    /\ sent' = 0
    /\ dispatched' = None
    /\ UNCHANGED <<b, b2, lists, assigned, items_log, payloads, init_args, client,
                   sync_client, net, coros>>

\* Mutant of CallClose: close() releases the transports of both modes.
CallClose_both ==
    /\ Idle
    /\ transports' = [sync |-> Closed(transports.sync, closed_by(sync_client)),
                      async |-> Closed(transports.async, closed_by(async_client))]
    /\ sync_client' = close(sync_client)
    /\ async_client' = aclose(async_client)
    /\ ret' = Done("close", Return(NoneType), None)
    /\ sent' = 0
    /\ dispatched' = None
    /\ UNCHANGED <<b, b2, lists, assigned, items_log, payloads, init_args, client,
                   net, coros>>

CallClose == ReleaseSync("close")
CallAclose == ReleaseAsync("aclose")
CallExit == ReleaseSync("__exit__")
CallAexit == ReleaseAsync("__aexit__")

\* invoice() (client.py:100-102): a new builder of this client, with a list
\* of its own (invoice.py:81).
CallInvoice ==
    /\ Local("invoice", Return(Self))
    /\ b' = InvoiceBuilder
    /\ lists' = [lists EXCEPT !.holders = @ \ {"b"}]
    /\ UNCHANGED b2
    /\ assigned' = <<>>
    /\ items_log' = NoItems
    /\ payloads' = <<>>

\* validate, get_account and their async variants up to the request.
CallValidate ==
    /\ SendSync("validate", "POST", "/v1/validate",
                Key("pdf_base64", "JVBERi0xLjQK"), NoneType)
    /\ UNCHANGED <<b, assigned, items_log, payloads>>

CallValidateAsync ==
    /\ SendAsync("validate_async", "POST", "/v1/validate",
                 Key("pdf_base64", "JVBERi0xLjQK"), NoneType)
    /\ UNCHANGED <<b, assigned, items_log, payloads>>

CallGetAccount ==
    /\ SendSync("get_account", "GET", "/v1/account", <<>>, NoneType)
    /\ UNCHANGED <<b, assigned, items_log, payloads>>

CallGetAccountAsync ==
    /\ SendAsync("get_account_async", "GET", "/v1/account", <<>>, NoneType)
    /\ UNCHANGED <<b, assigned, items_log, payloads>>

\* generate_invoice and generate_invoice_async (client.py:167-173) up to the
\* request.
CallGenerateInvoice ==
    /\ SendSync("generate_invoice", "POST", "/v1/generate",
                generate_sync_json(SampleRequest), SampleRequest)
    /\ UNCHANGED <<b, assigned, items_log, payloads>>

CallGenerateInvoiceAsync ==
    /\ SendAsync("generate_invoice_async", "POST", "/v1/generate",
                 generate_async_json(SampleRequest), SampleRequest)
    /\ UNCHANGED <<b, assigned, items_log, payloads>>

\* Mutant of ReceiveClient: a request that met a transport fault is sent again.
ReceiveClient_retrying ==
    /\ net # None
    /\ net[1].op \in {"validate", "validate_async", "get_account", "get_account_async",
                      "generate_invoice", "generate_invoice_async"}
    /\ \E reply \in Replies :
        IF reply.type # "Response" /\ sent < 2
        THEN /\ sent' = sent + 1
             /\ UNCHANGED <<b, b2, lists, assigned, items_log, payloads, init_args,
                            client, sync_client, async_client, transports, net,
                            dispatched, coros, ret>>
        ELSE Finish(CASE net[1].op = "validate" -> validate(reply)
                      [] net[1].op = "validate_async" -> validate_async(reply)
                      [] net[1].op = "get_account" -> get_account(reply)
                      [] net[1].op = "get_account_async" -> get_account_async(reply)
                      [] net[1].op = "generate_invoice" ->
                            _generate_sync(net[1].request, reply)
                      [] net[1].op = "generate_invoice_async" ->
                            _generate_async(net[1].request, reply),
                    reply)

\* The reply to a request of the client's own operations arrives.
ReceiveClient ==
    /\ net # None
    /\ net[1].op \in {"validate", "validate_async", "get_account", "get_account_async",
                      "generate_invoice", "generate_invoice_async"}
    /\ \E reply \in Replies :
        Finish(CASE net[1].op = "validate" -> validate(reply)
                 [] net[1].op = "validate_async" -> validate_async(reply)
                 [] net[1].op = "get_account" -> get_account(reply)
                 [] net[1].op = "get_account_async" -> get_account_async(reply)
                 [] net[1].op = "generate_invoice" ->
                       _generate_sync(net[1].request, reply)
                 [] net[1].op = "generate_invoice_async" ->
                       _generate_async(net[1].request, reply),
               reply)

\* The builder and generate in both modes: every setting of the fields, with a
\* reply of each kind.
Next ==
    \/ CallNumber \/ CallDate \/ CallSeller \/ CallBuyer \/ CallItems
    \/ CallLogoBase64 \/ CallLogoFile \/ CallFooterText \/ CallAccentColor
    \/ CallGenerate \/ CallGenerateAsync \/ ReceiveGenerate

Spec == Init /\ [][Next]_vars

\* The item list of a builder whose other fields are set: every sequence of
\* add_item, add_item_obj and items calls, and generate in between.
NextItems ==
    \/ CallAddItem \/ CallAddItemObj \/ CallItems
    \/ CallGenerate \/ CallGenerateAsync \/ ReceiveGenerate

SpecItems == InitReady /\ [][NextItems]_vars

\* The client's own operations, generate_invoice included: one request, with
\* every reply.
NextClient ==
    \/ CallValidate \/ CallValidateAsync
    \/ CallGetAccount \/ CallGetAccountAsync
    \/ CallGenerateInvoice \/ CallGenerateInvoiceAsync
    \/ ReceiveClient
    \/ CallClose \/ CallAclose

SpecClient == Init /\ [][NextClient]_vars

\* A client's life from its construction on: builders made, requests sent in
\* both modes, transports released and created again.
NextLifecycle ==
    \/ CallInvoice
    \/ CallGenerate \/ CallGenerateAsync \/ ReceiveGenerate
    \/ CallClose \/ CallAclose \/ CallExit \/ CallAexit

SpecLifecycle == InitLifecycle /\ [][NextLifecycle]_vars

(***************************************************************************)
(* Coroutines of one client on one event loop (client.py:62-82, 121-136,   *)
(* 198-219, 241-259).  A coroutine runs without interruption from one      *)
(* await to the next; while it is suspended at an await any other          *)
(* coroutine of the loop may run.                                          *)
(***************************************************************************)
\* What httpx raises when a request is handed to a client whose aclose() has
\* begun; it is neither an httpx.TimeoutException nor an httpx.RequestError.
RuntimeError ==
    [type |-> "RuntimeError",
     message |-> "Cannot send a request, as the client has been closed."]

\* A suspended coroutine: the operation, what it awaits, and the transport.
Awaiting(op, what, id) == [op |-> op, awaiting |-> what, via |-> id]

\* An asynchronous operation from its call to `await client.post(...)` /
\* `await client.get(...)`: the getter returns the attribute's transport (and
\* creates one if the attribute is None), the request is handed to it, and the
\* coroutine is suspended until the reply; a transport already closed refuses
\* the request at once.
StartAsync(op) ==
    /\ Idle
    /\ CanOpen(transports.async, async_client)
    /\ async_client' = _get_async_client(client[1], async_client, Len(transports.async) + 1)
    /\ transports' = [transports EXCEPT !.async = Opened(@, async_client, async_client')]
    /\ dispatched' = Dispatch(op, async_client', transports'.async)
    /\ IF transports'.async[async_client'[1].id] > 0
       THEN /\ ret' = Done(op, Raise(RuntimeError), None)
            /\ sent' = 0
            /\ coros' = coros
       ELSE /\ BagCardinality(coros) < MaxTasks
            /\ coros' = coros (+) SetToBag({Awaiting(op, "request", async_client'[1].id)})
            /\ sent' = 1
            /\ ret' = ret
    /\ UNCHANGED <<b, b2, lists, assigned, items_log, payloads, init_args, client,
                   sync_client, net>>

\* generate_async() of the builder (invoice.py:262-264) as a coroutine.
TaskGenerateAsync ==
    LET request == _build_request(b)
    IN  IF is_prebuilt_failure(request)
        THEN /\ Local("generate_async", _generate_async(request, None))
             /\ UNCHANGED <<b, b2, lists, assigned, items_log, payloads>>
        ELSE StartAsync("generate_async")

\* validate_async(...) and get_account_async() as coroutines.
TaskValidateAsync == StartAsync("validate_async")
TaskGetAccountAsync == StartAsync("get_account_async")

\* The reply to a suspended coroutine's request arrives: the coroutine resumes
\* and its handler finishes.
TaskReply ==
    \E c \in BagToSet(coros) :
        /\ c.awaiting = "request"
        /\ \E reply \in SampleReplies :
            ret' = Done(c.op,
                        CASE c.op = "generate_async" ->
                                _generate_async(_build_request(b), reply)
                          [] c.op = "validate_async" -> validate_async(reply)
                          [] c.op = "get_account_async" -> get_account_async(reply),
                        Some(reply))
        /\ coros' = coros (-) SetToBag({c})
        /\ UNCHANGED <<b, b2, lists, assigned, items_log, payloads, init_args, client,
                       sync_client, async_client, transports, net, sent, dispatched>>

\* aclose() (client.py:78-82) from its call to `await self._async_client.aclose()`.
\* The transport's release begins with that call.  Closing the connections of
\* a transport not closed before may suspend the coroutine, with the attribute
\* still set; otherwise the coroutine runs on to `self._async_client = None`.
TaskAclose ==
    /\ Idle
    /\ sent' = 0
    /\ dispatched' = None
    /\ IF async_client = None
       THEN /\ ret' = Done("aclose", Return(NoneType), None)
            /\ UNCHANGED <<async_client, transports, coros>>
       ELSE /\ transports' = [transports EXCEPT
                                 !.async = Closed(@, closed_by(async_client))]
            /\ \/ /\ transports.async[async_client[1].id] = 0
                  /\ BagCardinality(coros) < MaxTasks
                  /\ coros' = coros (+)
                              SetToBag({Awaiting("aclose", "aclose", async_client[1].id)})
                  /\ UNCHANGED <<async_client, ret>>
               \/ /\ async_client' = aclose(async_client)
                  /\ ret' = Done("aclose", Return(NoneType), None)
                  /\ coros' = coros
    /\ UNCHANGED <<b, b2, lists, assigned, items_log, payloads, init_args, client,
                   sync_client, net>>

\* ... and from there to its end: `self._async_client = None` (client.py:82),
\* whatever the attribute holds by then.
TaskAcloseResume ==
    \E c \in BagToSet(coros) :
        /\ c.awaiting = "aclose"
        /\ async_client' = None
        /\ coros' = coros (-) SetToBag({c})
        /\ ret' = Done("aclose", Return(NoneType), None)
        /\ UNCHANGED <<b, b2, lists, assigned, items_log, payloads, init_args, client,
                       sync_client, transports, net, sent, dispatched>>

\* A client and a builder of it, with no field set or with every required one.
InitAsync ==
    /\ Constructed(DefaultArgs)
    /\ b \in {InvoiceBuilder, FullBuilder}
    /\ b2 = InvoiceBuilder
    /\ lists = Unshared(<<>>)
    /\ assigned = <<>>
    /\ items_log = [given |-> <<>>, added |-> b.items]
    /\ payloads = <<>>
    /\ ret = Done(IF b = InvoiceBuilder THEN "invoice" ELSE "set", Return(Self), None)

\* Asynchronous operations and aclose() started while others are suspended.
NextAsync ==
    \/ TaskGenerateAsync \/ TaskValidateAsync \/ TaskGetAccountAsync
    \/ TaskReply
    \/ TaskAclose \/ TaskAcloseResume

SpecAsync == InitAsync /\ [][NextAsync]_vars

\* Two builders of one client, obtained from separate invoice() calls, and a
\* list of items the caller made: the first builder with its required fields
\* set but for the items, the second with an item of its own added.
InitAlias ==
    /\ Constructed(DefaultArgs)
    /\ b = ReadyBuilder
    /\ b2 = FullBuilder
    /\ \E l \in ItemLists : lists = Unshared(l)
    /\ assigned = <<>>
    /\ items_log = NoItems
    /\ payloads = <<>>
    /\ ret = Done("set", Return(Self), None)

\* Setter calls on the first builder, the caller's list given to either.
NextAlias ==
    \/ CallAddItem \/ CallAddItemObj \/ CallItems \/ CallItemsShared
    \/ CallFooterText \/ CallAccentColor
    \/ OtherItemsShared

SpecAlias == InitAlias /\ [][NextAlias]_vars

(***************************************************************************)
(* What the claims speak of, stated from the wire contract and not from    *)
(* the client's code.                                                      *)
(***************************************************************************)
GenerateOps == {"generate", "generate_async", "generate_invoice", "generate_invoice_async"}
ClientOps == {"validate", "validate_async", "get_account", "get_account_async"}

\* The most recent call has ended (returned or raised) after an HTTP response.
Answered(ops) ==
    /\ ret.op \in ops
    /\ ret.kind \in {"return", "raise"}
    /\ ret.reply # None
    /\ ret.reply[1].type = "Response"

Is2xx(status) == status >= 200 /\ status <= 299

\* A details entry as the API documents it: path, code and message, and a
\* severity that is absent, "error" or "warning".
WellFormedDetail(d) ==
    /\ d.path # None /\ d.code # None /\ d.message # None
    /\ (d.severity # None => d.severity[1] \in {"error", "warning"})

\* A body of the documented error shape: JSON with an error string, and a
\* details list, if any, of well-formed entries.
WellFormedErrorBody(body) ==
    /\ body.shape = "error"
    /\ body.error # None
    /\ (body.details # None =>
            \A k \in 1..Len(body.details[1]) : WellFormedDetail(body.details[1][k]))

\* The body parses and carries a details list that is not empty.
CarriesDetails(body) ==
    /\ WellFormedErrorBody(body)
    /\ body.details # None
    /\ Len(body.details[1]) > 0

\* C1: After a response to generate with a non-2xx status, whatever its body,
\* the call has returned if and only if the status is 422 and the parsed body
\* carries a non-empty details list, and what it returned is an
\* InvoiceFailure; in every other non-2xx case it has raised.
C1_ReturnsOnlyFor422WithDetails ==
    (Answered(GenerateOps) /\ ~Is2xx(ret.reply[1].status_code)) =>
        LET response == ret.reply[1]
            soft == response.status_code = 422 /\ CarriesDetails(response.body)
        IN  /\ (ret.kind = "return") <=> soft
            /\ (ret.kind = "return") => ret.value.type = "InvoiceFailure"
            /\ ~soft => ret.kind = "raise"

\* C1's case: a 422 with a full details list has been returned as a value.
C1_Witness ==
    /\ Answered({"generate_invoice_async"})
    /\ ret.reply[1].status_code = 422
    /\ ret.kind = "return"
    /\ Len(ret.value.errors) = MaxDetails

\* C3: After a 422 response to generate whose body parses with a non-empty
\* details list, the returned InvoiceFailure's errors are that list: as many,
\* in the same order, each with the entry's path, code and message, and with
\* the entry's severity or "error" when it gave none.
C3_FailureCarriesTheDetails ==
    (/\ Answered(GenerateOps)
     /\ ret.reply[1].status_code = 422
     /\ CarriesDetails(ret.reply[1].body)) =>
        LET details == ret.reply[1].body.details[1]
        IN  /\ ret.kind = "return"
            /\ ret.value.type = "InvoiceFailure"
            /\ Len(ret.value.errors) = Len(details)
            /\ \A k \in 1..Len(details) :
                /\ ret.value.errors[k].path = details[k].path[1]
                /\ ret.value.errors[k].code = details[k].code[1]
                /\ ret.value.errors[k].message = details[k].message[1]
                /\ ret.value.errors[k].severity =
                        IF details[k].severity = None THEN "error"
                        ELSE details[k].severity[1]

\* C3's case: two different entries, one without a severity, came back.
C3_Witness ==
    /\ Answered({"generate_invoice"})
    /\ ret.reply[1].status_code = 422
    /\ ret.kind = "return"
    /\ Len(ret.value.errors) = 2
    /\ ret.value.errors[1].path # ret.value.errors[2].path
    /\ ret.reply[1].body.details[1][1].severity = None

\* C6: After a response to generate with a status other than 200 whose body
\* does not parse as the error shape, no parse exception has escaped: the
\* call has raised the quota error (402) with message "HTTP 402", or else an
\* API error with that status, code "unknown_error" and message
\* "HTTP <status>".
C6_UnparseableBodyIsAbsorbed ==
    (/\ Answered(GenerateOps)
     /\ ret.reply[1].status_code # 200
     /\ ~WellFormedErrorBody(ret.reply[1].body)) =>
        LET status == ret.reply[1].status_code
        IN  /\ ret.kind = "raise"
            /\ ret.value.type \notin {"json.JSONDecodeError", "pydantic.ValidationError"}
            /\ ret.value.message = "HTTP " \o ToString(status)
            /\ ret.value.status_code = status
            /\ IF status = 402
               THEN ret.value.type = "EnvoiceQuotaExceededError"
               ELSE /\ ret.value.type = "EnvoiceApiError"
                    /\ ret.value.code = Some("unknown_error")

\* C6's case: a 422 whose details hold a malformed entry was answered.
C6_Witness ==
    /\ Answered({"generate_invoice"})
    /\ ret.reply[1].status_code = 422
    /\ ret.reply[1].body.shape = "error"
    /\ ret.reply[1].body.error # None
    /\ ret.reply[1].body.details # None
    /\ ret.kind = "raise"

\* C4 as claimed: a 402 response to generate always raises the quota error
\* (status 402, an API error), whatever the body; and when the body carries
\* a message (read here as: one that is not empty), the error's message is
\* that message verbatim.
C4_Original ==
    (Answered(GenerateOps) /\ ret.reply[1].status_code = 402) =>
        LET body == ret.reply[1].body
        IN  /\ ret.kind = "raise"
            /\ ret.value.type = "EnvoiceQuotaExceededError"
            /\ isinstance_EnvoiceApiError(ret.value)
            /\ ret.value.status_code = 402
            /\ (body.shape = "error" /\ body.message # None /\ body.message[1] # "") =>
                    ret.value.message = body.message[1]

\* C4 amended: a 402 response to generate always raises the quota error
\* (status 402, an API error), whatever the body.  Its message is the body's
\* message verbatim when the body parses as the error shape and that message
\* is not empty; "Quota exceeded" when the body parses with no message or an
\* empty one; and "HTTP 402" when the body does not parse, whether or not it
\* carries a message.
C4_QuotaErrorAndItsMessage ==
    (Answered(GenerateOps) /\ ret.reply[1].status_code = 402) =>
        LET body == ret.reply[1].body
        IN  /\ ret.kind = "raise"
            /\ ret.value.type = "EnvoiceQuotaExceededError"
            /\ isinstance_EnvoiceApiError(ret.value)
            /\ ret.value.status_code = 402
            /\ ret.value.message =
                IF ~WellFormedErrorBody(body) THEN "HTTP 402"
                ELSE IF body.message # None /\ body.message[1] # ""
                THEN body.message[1]
                ELSE "Quota exceeded"

\* C4's case: a 402 whose body has a message and a details list was answered.
C4_Witness ==
    /\ Answered({"generate_invoice"})
    /\ ret.reply[1].status_code = 402
    /\ CarriesDetails(ret.reply[1].body)
    /\ ret.reply[1].body.message = Some("Monthly quota exceeded")
    /\ ret.kind = "raise"

\* The cases C5 is about: a non-2xx status other than 402, and not a 422
\* whose body carries a details list with an entry in it.
C5_Case ==
    /\ Answered(GenerateOps)
    /\ ~Is2xx(ret.reply[1].status_code)
    /\ ret.reply[1].status_code # 402
    /\ ~(/\ ret.reply[1].status_code = 422
         /\ ret.reply[1].body.shape = "error"
         /\ ret.reply[1].body.details # None
         /\ Len(ret.reply[1].body.details[1]) > 0)

\* C5 as claimed: in those cases the call has raised a generic API error
\* whose status_code is the response's status and whose code is the body's
\* error field.
C5_Original ==
    C5_Case =>
        LET body == ret.reply[1].body
        IN  /\ ret.kind = "raise"
            /\ ret.value.type = "EnvoiceApiError"
            /\ ret.value.status_code = ret.reply[1].status_code
            /\ (body.shape = "error" /\ body.error # None) =>
                    ret.value.code = body.error

\* C5 amended: for every non-2xx status other than 402, and other than a 422
\* whose body parses with a non-empty details list, the call has raised a
\* generic API error whose status_code is the response's status and whose
\* code is the body's error field when the body parses as the error shape,
\* and "unknown_error" when it does not (also when it has an error field).
C5_ApiErrorStatusAndCode ==
    (/\ Answered(GenerateOps)
     /\ ~Is2xx(ret.reply[1].status_code)
     /\ ret.reply[1].status_code # 402
     /\ ~(ret.reply[1].status_code = 422 /\ CarriesDetails(ret.reply[1].body))) =>
        LET body == ret.reply[1].body
        IN  /\ ret.kind = "raise"
            /\ ret.value.type = "EnvoiceApiError"
            /\ ret.value.status_code = ret.reply[1].status_code
            /\ ret.value.code =
                IF WellFormedErrorBody(body) THEN body.error
                ELSE Some("unknown_error")

\* C5's case: a 500 with a parseable body was answered.
C5_Witness ==
    /\ Answered({"generate_invoice_async"})
    /\ ret.reply[1].status_code = 500
    /\ WellFormedErrorBody(ret.reply[1].body)
    /\ ret.kind = "raise"
    /\ ret.value.code = Some("internal_error")

\* C7: After a response to validate, validate_async, get_account or
\* get_account_async, whatever its body: if the status is not a success status
\* the call has raised an API error with that status code, and if it is a
\* success status the call has not raised an API error.
C7_NonSuccessRaisesApiError ==
    Answered(ClientOps) =>
        LET response == ret.reply[1]
        IN  IF ~Is2xx(response.status_code)
            THEN /\ ret.kind = "raise"
                 /\ isinstance_EnvoiceApiError(ret.value)
                 /\ ret.value.status_code = response.status_code
            ELSE ~(ret.kind = "raise" /\ isinstance_EnvoiceApiError(ret.value))

(***************************************************************************)
(* The builder's claims.                                                   *)
(***************************************************************************)
BuilderGenerateOps == {"generate", "generate_async"}

\* The required fields in the order they are reported.  A field is missing
\* when it was never set or was set to an empty value.
RequiredFields == <<"number", "date", "seller", "buyer", "items">>
IsMissing(bld, k) ==
    CASE RequiredFields[k] = "number" -> bld.number = None \/ bld.number = Some("")
      [] RequiredFields[k] = "date" -> bld.date = None \/ bld.date = Some("")
      [] RequiredFields[k] = "seller" -> bld.seller = None
      [] RequiredFields[k] = "buyer" -> bld.buyer = None
      [] RequiredFields[k] = "items" -> bld.items = <<>>
Missing(bld) == { k \in 1..Len(RequiredFields) : IsMissing(bld, k) }
\* The n-th missing field, in that order.
NthMissing(bld, n) ==
    CHOOSE k \in Missing(bld) : Cardinality({ j \in Missing(bld) : j < k }) = n - 1

\* C2: A generate() or generate_async() call on a builder with a required
\* field missing returns (does not raise) an InvoiceFailure with exactly one
\* error per missing field, in the order number, date, seller, buyer, items,
\* each with code "REQUIRED" and path "$.invoice.<field>" and none for a
\* field that is present; and the call issues no HTTP request and allocates
\* no transport.
C2_MissingFieldsFailLocally ==
    [][ (/\ net = None
         /\ Missing(b) # {}
         /\ ret'.op \in BuilderGenerateOps
         /\ ret' # ret) =>
            /\ ret'.kind = "return"
            /\ ret'.value.type = "InvoiceFailure"
            /\ ~success(ret'.value)
            /\ Len(ret'.value.errors) = Cardinality(Missing(b))
            /\ \A n \in 1..Len(ret'.value.errors) :
                /\ ret'.value.errors[n].code = "REQUIRED"
                /\ ret'.value.errors[n].path =
                        "$.invoice." \o RequiredFields[NthMissing(b, n)]
            /\ ret'.reply = None
            /\ net' = None
            /\ sync_client' = sync_client
            /\ async_client' = async_client
            /\ b' = b
      ]_vars

\* C2's case: generate() has returned a failure for three missing fields,
\* one of them set to an empty value, on a client with no transport.
C2_Witness ==
    /\ ret.op = "generate"
    /\ ret.kind = "return"
    /\ ret.value.type = "InvoiceFailure"
    /\ Len(ret.value.errors) = 3
    /\ b.number = Some("")
    /\ b.seller # None
    /\ sync_client = None
    /\ async_client = None

\* C8: generate() and generate_async() agree on every builder state and every
\* reply: the request each has in flight carries the payload the other mode
\* would send for the same builder, and each call ends the way the other
\* mode's handler ends on the same request and reply -- the same result with
\* the same contents, or the same error with the same status, code and
\* message.
C8_SyncAndAsyncAgree ==
    /\ (net # None /\ net[1].op = "generate") =>
            net[1].json = generate_async_json(_build_request(b))
    /\ (net # None /\ net[1].op = "generate_async") =>
            net[1].json = generate_sync_json(_build_request(b))
    /\ (ret.op = "generate" /\ ret.kind \in {"return", "raise"}) =>
            LET other == _generate_async(_build_request(b),
                                         IF ret.reply = None THEN None ELSE ret.reply[1])
            IN  ret.kind = other.kind /\ ret.value = other.value
    /\ (ret.op = "generate_async" /\ ret.kind \in {"return", "raise"}) =>
            LET other == _generate_sync(_build_request(b),
                                        IF ret.reply = None THEN None ELSE ret.reply[1])
            IN  ret.kind = other.kind /\ ret.value = other.value

\* C8's case: generate_async() on a customized builder has met a timeout.
C8_Witness ==
    /\ ret.op = "generate_async"
    /\ ret.kind = "raise"
    /\ ret.reply # None
    /\ ret.reply[1].type = "httpx.ConnectTimeout"
    /\ "footer_text" \in DOMAIN assigned

\* The wire alias of each Customization field.
CustomizationAlias ==
    [f \in {"logo_base64", "logo_width_mm", "footer_text", "accent_color"} |->
        CASE f = "logo_base64" -> "logoBase64"
          [] f = "logo_width_mm" -> "logoWidthMm"
          [] f = "footer_text" -> "footerText"
          [] f = "accent_color" -> "accentColor"]

\* A generate request is on the wire.
GenerateInFlight == net # None /\ net[1].op \in BuilderGenerateOps

\* C9: When a generate request is sent for a builder on which no
\* customization setter was ever called, the request handed to the client has
\* no customization and the payload on the wire has no "customization" key at
\* all.
C9_NoCustomizationWhenNoneSet ==
    (GenerateInFlight /\ DOMAIN assigned = {}) =>
        /\ net[1].request.customization = None
        /\ "customization" \notin DOMAIN net[1].json

\* C9's case: such a request is on the wire.
C9_Witness ==
    /\ GenerateInFlight
    /\ DOMAIN assigned = {}
    /\ Len(net[1].json.invoice.items) = 2

\* C10 as claimed: when a generate request is sent after logo_base64 /
\* logo_file, footer_text or accent_color was called with any value, the
\* payload has a customization object, and its keys are exactly the fields
\* the setter calls set.
C10_Original ==
    (GenerateInFlight /\ DOMAIN assigned # {}) =>
        /\ "customization" \in DOMAIN net[1].json
        /\ DOMAIN net[1].json.customization =
                { CustomizationAlias[f] : f \in DOMAIN assigned }

\* Some setter call's latest value for the logo, footer text or accent color
\* is not empty.
SomeContentGiven ==
    \E f \in DOMAIN assigned \cap {"logo_base64", "footer_text", "accent_color"} :
        assigned[f] # ""

\* C10 amended: when a generate request is sent and the latest value given to
\* at least one of logo_base64 / logo_file, footer_text, accent_color is not
\* empty, the payload has a customization object holding exactly the fields
\* the setter calls set (a logo width included, and fields set to an empty
\* string included), each with the value last given; when every value given
\* was empty (an empty string, an empty logo file), the payload has no
\* customization object.
C10_CustomizationHoldsWhatWasSet ==
    GenerateInFlight =>
        IF SomeContentGiven
        THEN /\ "customization" \in DOMAIN net[1].json
             /\ DOMAIN net[1].json.customization =
                    { CustomizationAlias[f] : f \in DOMAIN assigned }
             /\ \A f \in DOMAIN assigned :
                    net[1].json.customization[CustomizationAlias[f]] = assigned[f]
        ELSE "customization" \notin DOMAIN net[1].json

\* C10's case: only the footer text was set, to a text, and the request is
\* on the wire.
C10_Witness ==
    /\ GenerateInFlight
    /\ DOMAIN assigned = {"footer_text"}
    /\ assigned["footer_text"] = "Thank you"

(***************************************************************************)
(* The item list.                                                          *)
(***************************************************************************)
\* What the calls made so far ask for: the list last given to items() (none
\* if it was never called), then every item added since, in call order.
ItemsAskedFor == items_log.given \o items_log.added

\* C11: After any sequence of add_item, add_item_obj and items calls, the
\* builder's items are the list given to the last items() call (empty if
\* there was none) followed by the items of every later add_item /
\* add_item_obj call in call order; and a request built from the builder
\* carries exactly these items, in this order.
C11_ItemsReplaceAddsAppend ==
    /\ b.items = ItemsAskedFor
    /\ GenerateInFlight => net[1].request.invoice.items = ItemsAskedFor

\* C11's case: items() gave one item, add_item added a different one after
\* it, and the request with the two of them is on the wire.
C11_Witness ==
    /\ GenerateInFlight
    /\ Len(items_log.given) = 1
    /\ Len(items_log.added) = 1
    /\ items_log.given[1] # items_log.added[1]
    /\ net[1].json.invoice.items[2].description = "Consulting"

(***************************************************************************)
(* Construction and the transports' configuration.                         *)
(***************************************************************************)
\* The key the constructor was given is a non-empty string.
KeyGiven == init_args.api_key # None /\ init_args.api_key[1] # ""

\* A transport configured with what the constructor was given: the key in the
\* X-API-Key header, the base URL (without the slashes trailing it) and the
\* timeout.
ConfiguredAsConstructed(transport) ==
    /\ transport.headers = [h \in {"X-API-Key"} |-> init_args.api_key[1]]
    /\ transport.base_url.text = init_args.api_url.text
    /\ transport.base_url.slashes = 0
    /\ transport.timeout = init_args.timeout

\* C12: Constructing a client with an empty or missing API key raises at
\* construction, with no transport allocated and nothing sent, then or ever;
\* with a non-empty key construction succeeds with both transports
\* unallocated and nothing sent, and every transport the client has later,
\* the ones created after a release included, is configured with the key,
\* base URL and timeout given at construction.
C12_ConstructionAndConfiguration ==
    /\ ~KeyGiven => /\ client = None
                    /\ ret.op = "__init__" /\ ret.kind = "raise"
                    /\ ret.value.type = "ValueError"
    /\ KeyGiven => client # None
    /\ sync_client = None /\ async_client = None
    /\ transports = NoTransports /\ net = None /\ sent = 0
    /\ [](/\ ~KeyGiven => /\ client = None
                          /\ sync_client = None /\ async_client = None
                          /\ transports = NoTransports /\ net = None /\ sent = 0
          /\ KeyGiven =>
                /\ client # None
                /\ sync_client # None => ConfiguredAsConstructed(sync_client[1])
                /\ async_client # None => ConfiguredAsConstructed(async_client[1]))

\* C12's case: a client constructed with its own URL and timeout has its
\* second synchronous transport, created after a release.
C12_Witness ==
    /\ init_args.api_url.slashes = 2
    /\ init_args.timeout = 5
    /\ Len(transports.sync) = 2
    /\ sync_client # None
    /\ net # None


(***************************************************************************)
(* Transport faults, the closed taxonomy, and the single request.          *)
(***************************************************************************)
RemoteOps == GenerateOps \cup ClientOps

\* The most recent call has ended after its request met a transport fault.
Faulted(ops) ==
    /\ ret.op \in ops
    /\ ret.kind \in {"return", "raise"}
    /\ ret.reply # None
    /\ ret.reply[1].type # "Response"

\* C13: When the request of generate, validate or get_account, in either
\* mode, meets a transport fault, the call has raised (not returned) a network
\* error, which is no API error: for a timeout with the message
\* "Request timeout", for any other request error with the transport's
\* exception as its cause.
C13_TransportFaultsRaiseNetworkErrors ==
    Faulted(RemoteOps) =>
        /\ ret.kind = "raise"
        /\ ret.value.type = "EnvoiceNetworkError"
        /\ ~isinstance_EnvoiceApiError(ret.value)
        /\ IF ret.reply[1].type = "httpx.ConnectTimeout"
           THEN ret.value.message = "Request timeout"
           ELSE ret.value.cause = ret.reply

\* C13's case: validate_async met a refused connection.
C13_Witness ==
    /\ Faulted({"validate_async"})
    /\ ret.reply[1].type = "httpx.ConnectError"
    /\ ret.kind = "raise"
    /\ ret.value.cause # None


\* The error kinds of the taxonomy that generate can raise.
TaxonomyKinds == {"EnvoiceQuotaExceededError", "EnvoiceApiError", "EnvoiceNetworkError"}

\* C14: Every error generate has raised, whatever the server answered (any
\* status, any body, a 200 with a malformed body included) and whatever
\* fault the transport met, is a quota-exceeded error, a generic API error
\* or a network error.
C14_TaxonomyIsClosed ==
    (ret.op \in GenerateOps /\ ret.kind = "raise") =>
        /\ ret.value.type \in TaxonomyKinds
        /\ isinstance_EnvoiceError(ret.value)

\* A call has ended: it returned or raised after its one request was answered
\* or met a fault.
Ended(ops) ==
    /\ ret.op \in ops
    /\ ret.kind \in {"return", "raise"}
    /\ ret.reply # None

\* Its request ended in a timeout, a connection error or an error status.
RequestFailed ==
    \/ ret.reply[1].type # "Response"
    \/ ~Is2xx(ret.reply[1].status_code)

\* C15: A call of generate, validate or get_account, in either mode, has
\* issued at most one HTTP request; and once its request ended in a timeout,
\* a connection error or an error status, the call has ended with that one
\* request and none is in flight.
C15_NoRetry ==
    /\ sent <= 1
    /\ (ret.op \in RemoteOps /\ ret.kind = "pending") => (sent = 1 /\ net # None)
    /\ (Ended(RemoteOps) /\ RequestFailed) => (sent = 1 /\ net = None)

\* C15's case: get_account has ended after a timeout.
C15_Witness ==
    /\ Ended({"get_account"})
    /\ ret.reply[1].type = "httpx.ConnectTimeout"
    /\ ret.kind = "raise"
    /\ sent = 1


(***************************************************************************)
(* generate and the builder it is called on.                               *)
(***************************************************************************)
\* C16: generate does not consume or change the builder.  Any step of a
\* generate() or generate_async() call leaves the builder as it was, and a
\* call on a builder with every required field set sends a request (none is
\* suppressed); so that of two generate requests with no setter call between
\* them the second carries the payload of the first, items included.
C16_GenerateLeavesTheBuilder ==
    /\ [](Len(payloads) = 2 => payloads[1] = payloads[2])
    /\ [][ ret'.op \in BuilderGenerateOps =>
            /\ b' = b
            /\ (net = None /\ Missing(b) = {}) =>
                    /\ net' # None
                    /\ sent' = 1
                    /\ payloads' # <<>>
                    /\ net'[1].json = payloads'[Len(payloads')]
         ]_vars

\* C16's case: a second generate request is on the wire, for a builder with
\* two items, after a first that was answered.
C16_Witness ==
    /\ GenerateInFlight
    /\ Len(payloads) = 2
    /\ Len(b.items) = 2
    /\ Len(net[1].json.invoice.items) = 2


(***************************************************************************)
(* The transports.                                                         *)
(***************************************************************************)
SyncOps == {"generate", "generate_invoice", "validate", "get_account"}
AsyncOps == {"generate_async", "generate_invoice_async", "validate_async",
             "get_account_async"}

\* The transports of a mode that were created and not closed since.
Live(log) == { i \in 1..Len(log) : log[i] = 0 }

\* At most one transport of the mode is live, and it is the one the client
\* holds; a request of the mode in flight goes through it.
OneLive(log, attr, ops) ==
    /\ Cardinality(Live(log)) <= 1
    /\ Live(log) = IF attr = None THEN {} ELSE {attr[1].id}
    /\ (net # None /\ net[1].op \in ops) => attr # None

\* A step creates a transport of the mode only when an operation of the mode
\* sends a request and finds none held, and then creates just one; an
\* operation that finds one held sends its request through that one.
LazyAndReused(log, log2, attr, attr2, ops) ==
    /\ Len(log2) > Len(log) =>
            /\ attr = None
            /\ net = None /\ net' # None /\ net'[1].op \in ops
            /\ Len(log2) = Len(log) + 1
            /\ attr2 # None /\ attr2[1].id = Len(log2)
    /\ (net = None /\ net' # None /\ net'[1].op \in ops /\ attr # None) =>
            /\ attr2 = attr
            /\ log2 = log
    /\ (net = None /\ net' # None /\ net'[1].op \in ops /\ attr = None) =>
            Len(log2) = Len(log) + 1

\* C17: Transports are allocated lazily and reused.  In each mode at most one
\* transport is live at any time, and it is the one requests of the mode go
\* through; a transport is created only when an operation of the mode that
\* sends a request finds none live (on first use, or on first use after a
\* release), so that every request between two releases goes through the
\* same transport, and operations that send nothing create none.
C17_TransportsLazyAndReused ==
    /\ [](/\ OneLive(transports.sync, sync_client, SyncOps)
          /\ OneLive(transports.async, async_client, AsyncOps))
    /\ [][ /\ LazyAndReused(transports.sync, transports'.sync,
                            sync_client, sync_client', SyncOps)
           /\ LazyAndReused(transports.async, transports'.async,
                            async_client, async_client', AsyncOps)
         ]_vars

\* C17's case: a synchronous request goes through the second synchronous
\* transport, created after the first was released, while the one
\* asynchronous transport is live.
C17_Witness ==
    /\ net # None /\ net[1].op = "generate"
    /\ transports.sync = <<1, 0>>
    /\ sync_client # None /\ sync_client[1].id = 2
    /\ transports.async = <<0>>
    /\ Len(payloads) = 2


SyncReleases == {"close", "__exit__"}
AsyncReleases == {"aclose", "__aexit__"}

\* No transport of the mode was closed more than once.
ClosedOnce(log) == \A i \in 1..Len(log) : log[i] <= 1

\* C18: Release is idempotent.  close() or __exit__ (resp. aclose() or
\* __aexit__) on a client whose transport of that mode is unallocated or
\* already released returns None, raises nothing and changes nothing: no
\* transport is closed by it, none is created, and the other mode's transport
\* is left alone; and no transport is ever closed a second time.
C18_ReleaseIsIdempotent ==
    /\ [](ClosedOnce(transports.sync) /\ ClosedOnce(transports.async))
    /\ [][ /\ (net = None /\ ret'.op \in SyncReleases /\ sync_client = None) =>
                /\ ret'.kind = "return" /\ ret'.value = NoneType
                /\ sync_client' = None
                /\ UNCHANGED <<transports, async_client, net, b>>
           /\ (net = None /\ ret'.op \in AsyncReleases /\ async_client = None) =>
                /\ ret'.kind = "return" /\ ret'.value = NoneType
                /\ async_client' = None
                /\ UNCHANGED <<transports, sync_client, net, b>>
         ]_vars

\* C18's case: close() has returned on a client that never made a call.
C18_Witness ==
    /\ ret.op = "close"
    /\ ret.kind = "return"
    /\ transports = NoTransports
    /\ sync_client = None


(***************************************************************************)
(* The result of generate.                                                 *)
(***************************************************************************)
\* C19: Whatever the builder's generate() or generate_async() has returned,
\* after local validation or after a reply, is an InvoiceSuccess or an
\* InvoiceFailure; its success is true exactly for an InvoiceSuccess and
\* false exactly for an InvoiceFailure; and an InvoiceFailure carries at
\* least one error.
C19_ResultIsOneOfTwoArms ==
    (ret.op \in BuilderGenerateOps /\ ret.kind = "return") =>
        /\ ret.value.type \in {"InvoiceSuccess", "InvoiceFailure"}
        /\ success(ret.value) <=> ret.value.type = "InvoiceSuccess"
        /\ ~success(ret.value) <=> ret.value.type = "InvoiceFailure"
        /\ ret.value.type = "InvoiceFailure" => Len(ret.value.errors) > 0

\* C19's case: generate_async() has returned the failure of a 422 reply.
C19_Witness ==
    /\ ret.op = "generate_async"
    /\ ret.kind = "return"
    /\ ret.reply # None
    /\ ret.reply[1].status_code = 422
    /\ ret.value.type = "InvoiceFailure"
    /\ ~success(ret.value)

\* C20: generate has returned an InvoiceSuccess only after a reply with
\* status exactly 200.  After any other status, 201 included, it has not
\* returned a success: it has raised the quota error (402), returned an
\* InvoiceFailure (422 with a parseable non-empty details list), or raised an
\* API error carrying the status.
C20_SuccessOnlyFor200 ==
    Answered(GenerateOps) =>
        LET response == ret.reply[1]
            status == response.status_code
        IN  /\ (ret.kind = "return" /\ ret.value.type = "InvoiceSuccess") => status = 200
            /\ status # 200 =>
                IF status = 402
                THEN ret.kind = "raise" /\ ret.value.type = "EnvoiceQuotaExceededError"
                ELSE IF status = 422 /\ CarriesDetails(response.body)
                THEN ret.kind = "return" /\ ret.value.type = "InvoiceFailure"
                ELSE /\ ret.kind = "raise"
                     /\ ret.value.type = "EnvoiceApiError"
                     /\ ret.value.status_code = status

\* C20's case: a 201 with a well-formed success body has been raised as an
\* API error.
C20_Witness ==
    /\ Answered({"generate_invoice"})
    /\ ret.reply[1].status_code = 201
    /\ ret.reply[1].body.shape = "generate"
    /\ ret.kind = "raise"
    /\ ret.value.type = "EnvoiceApiError"
    /\ ret.value.status_code = 201



\* What keeps the asynchronous transports safe while coroutines interleave.
NoLateDispatch == dispatched # None => dispatched[1].closes = 0
OneLiveAsyncTransport == Cardinality(Live(transports.async)) <= 1

\* C21: under every interleaving of generate_async / validate_async /
\* get_account_async coroutines with aclose() coroutines on one client, no
\* request is handed to an async transport whose release has already begun,
\* and at most one async transport is live (created and not closed) at a time.
C21_AsyncTransportSafeUnderInterleaving ==
    /\ NoLateDispatch
    /\ OneLiveAsyncTransport


\* All that belongs to one mode's transport: the attribute, and every
\* transport of the mode ever created with the closes it received.
SyncSide == [attribute |-> sync_client, created |-> transports.sync]
AsyncSide == [attribute |-> async_client, created |-> transports.async]

\* The request of the most recent call went to a transport of the call's mode,
\* the one its mode's attribute holds.
DispatchedInOwnMode ==
    dispatched # None =>
        IF dispatched[1].op \in SyncOps
        THEN /\ dispatched[1].transport = "httpx.Client"
             /\ net # None => /\ sync_client # None
                              /\ sync_client[1].id = dispatched[1].id
        ELSE /\ dispatched[1].op \in AsyncOps
             /\ dispatched[1].transport = "httpx.AsyncClient"
             /\ net # None => /\ async_client # None
                              /\ async_client[1].id = dispatched[1].id

\* C22: the two modes' transports are independent.  Every step of close(), of
\* __exit__ and of a synchronous operation leaves the async transport's
\* attribute and history as they were, every step of aclose(), of __aexit__
\* and of an asynchronous operation leaves the sync transport's, and a request
\* is only ever handed to a transport of its operation's own mode.
C22_ModesAreIndependent ==
    /\ [](DispatchedInOwnMode)
    /\ [][ /\ ret'.op \in SyncOps \cup SyncReleases => AsyncSide' = AsyncSide
           /\ ret'.op \in AsyncOps \cup AsyncReleases => SyncSide' = SyncSide ]_vars

\* Both modes had a transport, the sync one served a request, and close() has
\* released it: the async transport is still the attribute's, never closed.
C22_Witness ==
    /\ ret.op \in SyncReleases
    /\ sync_client = None
    /\ transports.sync = <<1>>
    /\ async_client # None
    /\ transports.async = <<0>>


\* A setter call on the first builder.
SetterCallOnFirst ==
    \/ CallAddItem \/ CallAddItemObj \/ CallItems \/ CallItemsShared
    \/ CallFooterText \/ CallAccentColor

\* What the second builder holds and would send.
OtherBuilder ==
    [items |-> b2.items, customization |-> b2.customization,
     request |-> _build_request(b2)]

\* C23: builders obtained from separate invoice() calls are independent.  No
\* setter call on one builder, add_item after items() was given a list the
\* caller still holds or also gave to another builder included, changes the
\* other builder's items, customization or built request, or the caller's list.
C23_BuildersAreIndependent ==
    [][ SetterCallOnFirst => /\ OtherBuilder' = OtherBuilder
                             /\ lists'.caller = lists.caller ]_vars

====
